---------------------------- MODULE Spec2Model ----------------------------
(***************************************************************************)
(* State-machine model of src/script.js, the client-side orchestration of  *)
(* the PRISM risk-analysis page: input capture (text box, image staging    *)
(* and preview), submission to /analyze and /analyze-image, projection of  *)
(* the response into the results area, and the recent-scans feed that is   *)
(* polled from /api/recent-reports.                                        *)
(*                                                                         *)
(* JavaScript runs each handler to its first await without interruption,   *)
(* so one action is one handler (or one continuation after an await).      *)
(* Strings whose characters the code inspects (MIME types, the message,    *)
(* predictions, risk levels) are sequences of one-character strings.       *)
(***************************************************************************)
EXTENDS Integers, Sequences, FiniteSets, Bags, TLC

VARIABLES
    messageInput,        \* messageInput.value
    selectedImage,       \* let selectedImage (line 16)
    btnDisabled,         \* analyzeImageBtn.disabled
    imagePreview,        \* file whose data URL is imagePreview.src
    reads,               \* FileReader reads started and not yet loaded
    loadingSpinner,      \* loadingSpinner.style.display
    resultsDisplay,      \* resultsContainer.style.display
    dom,                 \* content of the result regions
    inFlight,            \* bag of the analysis requests awaiting their response
    timeouts,            \* delays of the pending setTimeout(fetchLiveRecentScans, ..)
    hasHistory,          \* the page holds #localScanHistory
    histInFlight,        \* history fetches awaiting their response, oldest first
    feed,                \* historyContainer.innerHTML
    alerted,             \* message of the alert() the last handler raised
    logged,              \* the last handler wrote to console.error
    lastEvent            \* the handler that ran last, with its input

vars == <<messageInput, selectedImage, btnDisabled, imagePreview, reads,
          loadingSpinner, resultsDisplay, dom, inFlight, timeouts, hasHistory,
          histInFlight, feed, alerted, logged,
          lastEvent>>

-----------------------------------------------------------------------------
(* Bounds of the model *)

MaxReads == 2
MaxInFlight == 2
MaxTimeouts == 2
MaxFetches == 2
MaxTextLen == 3

-----------------------------------------------------------------------------
(* Strings *)

\* String.prototype.startsWith
StartsWith(s, p) == Len(s) >= Len(p) /\ SubSeq(s, 1, Len(p)) = p

WhiteSpace == {" ", "\t", "\n"}

RECURSIVE TrimStart(_)
TrimStart(s) ==
    IF s # <<>> /\ Head(s) \in WhiteSpace THEN TrimStart(Tail(s)) ELSE s

RECURSIVE TrimEnd(_)
TrimEnd(s) ==
    IF s # <<>> /\ s[Len(s)] \in WhiteSpace
    THEN TrimEnd(SubSeq(s, 1, Len(s) - 1)) ELSE s

\* String.prototype.trim
Trim(s) == TrimEnd(TrimStart(s))

-----------------------------------------------------------------------------
(* Input capture *)

ImagePrefix == <<"i", "m", "a", "g", "e", "/">>
MaxImageBytes == 16 * 1024 * 1024

\* selectedImage = null
NoFile == [name |-> "null", type |-> <<>>, size |-> 0]

PngType == <<"i", "m", "a", "g", "e", "/", "p", "n", "g">>
GifType == <<"i", "m", "a", "g", "e", "/", "g", "i", "f">>

SmallGif == [name |-> "small.gif", type |-> GifType, size |-> 1024]

\* The files the user can pick or drop.
Files ==
    { [name |-> "full.png", type |-> PngType, size |-> MaxImageBytes],
      SmallGif,
      [name |-> "big.png", type |-> PngType, size |-> MaxImageBytes + 1],
      [name |-> "notes.txt",
       type |-> <<"t", "e", "x", "t", "/", "p", "l", "a", "i", "n">>,
       size |-> 1024],
      [name |-> "image", type |-> <<"i", "m", "a", "g", "e">>, size |-> 1024] }

\* The values the user can leave in the message box.
Texts ==
    { <<>>, <<" ", "\t">>, <<" ", "h", "i", "\n">> }

NoAlert == <<>>


-----------------------------------------------------------------------------
(* Wire data.  A JSON object is a record that holds just the fields the     *)
(* body carries: a field the body lacks reads as undefined.                 *)

Has(obj, field) == field \in DOMAIN obj

\* JavaScript truthiness of a string-valued field: present and not empty
Truthy(obj, field) == Has(obj, field) /\ obj[field] # <<>>

Lower == <<"a", "b", "c", "d", "e", "f", "g", "h", "i", "j", "k", "l", "m",
          "n", "o", "p", "q", "r", "s", "t", "u", "v", "w", "x", "y", "z">>
Upper == <<"A", "B", "C", "D", "E", "F", "G", "H", "I", "J", "K", "L", "M",
          "N", "O", "P", "Q", "R", "S", "T", "U", "V", "W", "X", "Y", "Z">>

UpperChar(c) ==
    IF \E i \in 1..Len(Lower) : Lower[i] = c
    THEN Upper[CHOOSE i \in 1..Len(Lower) : Lower[i] = c] ELSE c

LowerChar(c) ==
    IF \E i \in 1..Len(Upper) : Upper[i] = c
    THEN Lower[CHOOSE i \in 1..Len(Upper) : Upper[i] = c] ELSE c

\* String.prototype.toUpperCase / toLowerCase
ToUpperCase(s) == [i \in 1..Len(s) |-> UpperChar(s[i])]
ToLowerCase(s) == [i \in 1..Len(s) |-> LowerChar(s[i])]

\* formattedName.charAt(0).toUpperCase() + formattedName.slice(1)
Capitalize(s) == IF s = <<>> THEN s ELSE <<UpperChar(Head(s))>> \o Tail(s)

\* Intl.DisplayNames(['en'], {type: 'language'}).of(code): the English name
\* of a known code, the code itself for a well-formed unknown one, and a
\* RangeError for a code that is not a language tag.
WellFormedCodes == { <<"e", "s">>, <<"h", "i">>, <<"x", "x">> }

DisplayNameOf(code) ==
    CASE code = <<"e", "s">> -> <<"S", "p", "a", "n", "i", "s", "h">>
      [] code = <<"h", "i">> -> <<"H", "i", "n", "d", "i">>
      [] OTHER -> code

Unknown == <<"u", "n", "k", "n", "o", "w", "n">>

\* The language label the three call sites compute from a raw value and an
\* object that may carry language_code (lines 137-143, 186-192, 244-250,
\* 327-336): the catch keeps the raw value when of() throws.
ResolveLanguage(raw, obj) ==
    IF Truthy(obj, "language_code") /\ obj.language_code # Unknown
    THEN IF obj.language_code \in WellFormedCodes
         THEN Capitalize(DisplayNameOf(obj.language_code))
         ELSE raw
    ELSE raw

\* Mutant: the two quote characters are left as they are.
EscapeCharNoQuotes(c) ==
    CASE c = "&" -> <<"&", "a", "m", "p", ";">>
      [] c = "<" -> <<"&", "l", "t", ";">>
      [] c = ">" -> <<"&", "g", "t", ";">>
      [] OTHER -> <<c>>

\* escapeHtml (lines 526-535)
EscapeChar(c) ==
    CASE c = "&" -> <<"&", "a", "m", "p", ";">>
      [] c = "<" -> <<"&", "l", "t", ";">>
      [] c = ">" -> <<"&", "g", "t", ";">>
      [] c = "\"" -> <<"&", "q", "u", "o", "t", ";">>
      [] c = "'" -> <<"&", "#", "0", "3", "9", ";">>
      [] OTHER -> <<c>>

RECURSIVE escapeHtml(_)
escapeHtml(text) ==
    IF text = <<>> THEN <<>> ELSE EscapeChar(Head(text)) \o escapeHtml(Tail(text))

\* Array.prototype.slice(0, n)
Slice(s, n) == SubSeq(s, 1, IF Len(s) < n THEN Len(s) ELSE n)

Min(a, b) == IF a < b THEN a ELSE b
Max(a, b) == IF a > b THEN a ELSE b

-----------------------------------------------------------------------------
(* The results area *)

\* document.getElementById(id) finds a section of the results area
Present(d, id) == \E i \in 1..Len(d.layout) : d.layout[i] = id

\* insertBefore(section, ref.nextSibling): the section goes right after ref
InsertAfter(layout, ref, id) ==
    LET i == CHOOSE j \in 1..Len(layout) : layout[j] = ref
    IN  SubSeq(layout, 1, i) \o <<id>> \o SubSeq(layout, i + 1, Len(layout))

\* The result regions as the page's markup leaves them, before any
\* projection.  layout lists, in document order, the indicators section and
\* the sections the script creates.
InitialDom ==
    [ riskLevelText |-> <<>>, riskLevelClass |-> {}, detectedLanguage |-> <<>>,
      riskScoreValue |-> 0, riskScoreStroke |-> "",
      scamConf |-> 0, safeConf |-> 0,
      stats |-> [characters |-> 0, words |-> 0, urls |-> 0, phones |-> 0],
      explanation |-> <<>>,
      layout |-> <<"indicatorsSection">>,
      urlScan |-> [display |-> "none", items |-> <<>>],
      keywordsDisplay |-> "none", keywords |-> <<>>,
      urlsDisplay |-> "none", urls |-> <<>>,
      phonesDisplay |-> "none", phones |-> <<>>,
      indicatorsDisplay |-> "none",
      indicators |-> [indUrgency |-> "", indFinancial |-> "", indAction |-> "",
                      indThreats |-> "", indPersonal |-> "", indLinks |-> ""],
      extracted |-> [display |-> "none", text |-> <<>>,
                     meta |-> <<>>] ]

\* What a projecting function returns: the regions as it left them, and
\* whether it threw before finishing.
Done(d) == [dom |-> d, threw |-> FALSE]
Threw(d) == [dom |-> d, threw |-> TRUE]

\* showExtractedText (lines 280-307).  The section is found or created first;
\* the template is evaluated before innerHTML is assigned, so a metadata
\* object without languages_checked throws with the content left as it was.
showExtractedText(d, text, data) ==
    LET created == IF Present(d, "extractedTextSection") THEN d
                   ELSE [d EXCEPT !.layout = <<"extractedTextSection">> \o @]
    IN  IF Has(data, "ocr_metadata") /\ ~Has(data.ocr_metadata, "languages_checked")
        THEN Threw(created)
        ELSE Done([created EXCEPT
                 !.extracted.text = escapeHtml(text),
                 !.extracted.meta =
                     IF Has(data, "ocr_metadata")
                     THEN <<[words |-> data.ocr_metadata.words_detected,
                             confidence |-> data.ocr_metadata.average_confidence,
                             languages |-> Slice(data.ocr_metadata.languages_checked, 3)]>>
                     ELSE <<>>,
                 !.extracted.display = "block"])

\* One entry of the URL scan section (lines 487-511)
UrlScanItem(scan) ==
    [ url |-> escapeHtml(scan.url),
      riskColor |-> IF scan.risk_level = "HIGH" THEN "danger"
                    ELSE IF scan.risk_level = "MEDIUM" THEN "warning"
                    ELSE "success",
      riskLevel |-> scan.risk_level,
      riskScore |-> scan.risk_score,
      warnings |-> IF Has(scan, "warnings")
                   THEN [i \in 1..Len(Slice(scan.warnings, 3)) |->
                            escapeHtml(scan.warnings[i])]
                   ELSE <<>> ]

\* displayUrlScans (lines 464-516): returns at once, touching nothing, when
\* there are no scans.
displayUrlScans(d, data) ==
    IF ~Has(data, "url_scans") \/ data.url_scans = <<>>
    THEN d
    ELSE [d EXCEPT
             !.layout = IF Present(d, "urlScanSection") THEN @
                        ELSE InsertAfter(@, "indicatorsSection", "urlScanSection"),
             !.urlScan =
                 [display |-> "block",
                  items |-> [i \in 1..Len(data.url_scans) |->
                                UrlScanItem(data.url_scans[i])]]]

NonEmptyList(data, field) == Has(data, field) /\ data[field] # <<>>

\* setIndicator (lines 518-524)
setIndicator(value) == IF value THEN "Yes" ELSE "No"

Flag(ind, field) == Has(ind, field) /\ ind[field]

\* Lines 310-323: badge text and class.  className is cleared before the one
\* class is added.
RiskClass(prediction) ==
    IF prediction = <<"S", "A", "F", "E">> THEN "risk-safe"
    ELSE IF prediction = <<"S", "U", "S", "P", "I", "C", "I", "O", "U", "S">>
         THEN "risk-suspicious"
    ELSE "risk-scam"

\* Mutant: the class is added without className being cleared.
WriteBadgeAdding(d, data) ==
    [d EXCEPT !.riskLevelText = ToUpperCase(data.prediction),
              !.riskLevelClass = @ \cup {RiskClass(ToUpperCase(data.prediction))}]

WriteBadge(d, data) ==
    [d EXCEPT !.riskLevelText = ToUpperCase(data.prediction),
              !.riskLevelClass = {RiskClass(ToUpperCase(data.prediction))}]

\* Lines 325-337: textContent of an undefined language is the empty string.
WriteLanguage(d, data) ==
    [d EXCEPT !.detectedLanguage =
        ResolveLanguage(IF Has(data, "language") THEN data.language ELSE <<>>, data)]

\* Mutant: the score is bounded from above only.
ClampAbove(score) == Min(score, 100)

\* Lines 339-359
ClampScore(score) == Min(Max(score, 0), 100)

StrokeOf(riskScore) ==
    IF riskScore >= 70 THEN "#ef4444"
    ELSE IF riskScore >= 40 THEN "#f59e0b"
    ELSE "#10b981"

WriteGauge(d, data) ==
    [d EXCEPT !.riskScoreValue = ClampScore(data.risk_score),
              !.riskScoreStroke = StrokeOf(ClampScore(data.risk_score))]

\* Lines 361-374
WriteConfidence(d, data) ==
    [d EXCEPT !.scamConf = data.confidence.scam, !.safeConf = data.confidence.safe]

\* Lines 376-383
WriteStats(d, data) ==
    [d EXCEPT !.stats = [characters |-> data.stats.characters,
                         words |-> data.stats.words,
                         urls |-> data.stats.urls,
                         phones |-> data.stats.phones],
              !.explanation = IF Has(data, "explanation") THEN data.explanation
                              ELSE <<>>]

\* Mutant: the lists are not emptied before the new items are appended.
WriteListsAppending(d, data) ==
    [d EXCEPT
        !.keywords = IF NonEmptyList(data, "suspicious_keywords")
                     THEN @ \o Slice(data.suspicious_keywords, 10) ELSE @,
        !.keywordsDisplay = IF NonEmptyList(data, "suspicious_keywords")
                            THEN "block" ELSE "none",
        !.urls = IF NonEmptyList(data, "urls_found")
                 THEN @ \o [i \in 1..Len(data.urls_found) |->
                               escapeHtml(data.urls_found[i])]
                 ELSE @,
        !.urlsDisplay = IF NonEmptyList(data, "urls_found") THEN "block" ELSE "none",
        !.phones = IF NonEmptyList(data, "phone_numbers_found")
                   THEN @ \o [i \in 1..Len(data.phone_numbers_found) |->
                                 escapeHtml(data.phone_numbers_found[i])]
                   ELSE @,
        !.phonesDisplay = IF NonEmptyList(data, "phone_numbers_found")
                          THEN "block" ELSE "none",
        !.indicatorsDisplay =
            IF \/ NonEmptyList(data, "suspicious_keywords")
               \/ NonEmptyList(data, "urls_found")
               \/ NonEmptyList(data, "phone_numbers_found")
            THEN "block" ELSE "none"]

\* Lines 388-448: a list that is empty hides its section and leaves the old
\* items in it; textContent takes keywords unescaped, innerHTML takes URLs
\* and phone numbers through escapeHtml.
WriteLists(d, data) ==
    [d EXCEPT
        !.keywords = IF NonEmptyList(data, "suspicious_keywords")
                     THEN Slice(data.suspicious_keywords, 10) ELSE @,
        !.keywordsDisplay = IF NonEmptyList(data, "suspicious_keywords")
                            THEN "block" ELSE "none",
        !.urls = IF NonEmptyList(data, "urls_found")
                 THEN [i \in 1..Len(data.urls_found) |-> escapeHtml(data.urls_found[i])]
                 ELSE @,
        !.urlsDisplay = IF NonEmptyList(data, "urls_found") THEN "block" ELSE "none",
        !.phones = IF NonEmptyList(data, "phone_numbers_found")
                   THEN [i \in 1..Len(data.phone_numbers_found) |->
                            escapeHtml(data.phone_numbers_found[i])]
                   ELSE @,
        !.phonesDisplay = IF NonEmptyList(data, "phone_numbers_found")
                          THEN "block" ELSE "none",
        !.indicatorsDisplay =
            IF \/ NonEmptyList(data, "suspicious_keywords")
               \/ NonEmptyList(data, "urls_found")
               \/ NonEmptyList(data, "phone_numbers_found")
            THEN "block" ELSE "none"]

\* Lines 450-457
WriteIndicators(d, data) ==
    [d EXCEPT !.indicators =
        [indUrgency |-> setIndicator(Flag(data.indicators, "has_urgency")),
         indFinancial |-> setIndicator(Flag(data.indicators, "has_financial_terms")),
         indAction |-> setIndicator(Flag(data.indicators, "has_action_required")),
         indThreats |-> setIndicator(Flag(data.indicators, "has_threats")),
         indPersonal |-> setIndicator(Flag(data.indicators, "requests_personal_info")),
         indLinks |-> setIndicator(Flag(data.indicators, "contains_urls"))]]

\* displayResults (lines 309-462) up to the last line, which shows the
\* container: the regions are written in source order, and reading a field
\* of an object the body lacks (prediction, confidence, stats, indicators)
\* throws a TypeError that leaves the regions written so far.
displayResults(d, data) ==
    IF ~Has(data, "prediction") THEN Threw(d)
    ELSE LET d3 == WriteGauge(WriteLanguage(WriteBadge(d, data), data), data)
         IN  IF ~Has(data, "confidence") THEN Threw(d3)
             ELSE IF ~Has(data, "stats") THEN Threw(WriteConfidence(d3, data))
             ELSE LET d6 == WriteLists(
                               displayUrlScans(
                                   WriteStats(WriteConfidence(d3, data), data), data),
                               data)
                  IN  IF ~Has(data, "indicators") THEN Threw(d6)
                      ELSE Done(WriteIndicators(d6, data))

-----------------------------------------------------------------------------
(* What the analysis service can answer *)

SafeResult ==
    [ prediction |-> <<"s", "a", "f", "e">>,
      language |-> <<"e", "n", "g", "l", "i", "s", "h">>,
      language_code |-> Unknown,
      risk_score |-> 5,
      confidence |-> [scam |-> 3, safe |-> 97],
      stats |-> [characters |-> 2, words |-> 1, urls |-> 0, phones |-> 0],
      explanation |-> <<"o", "k">>,
      suspicious_keywords |-> <<>>, urls_found |-> <<>>, phone_numbers_found |-> <<>>,
      indicators |-> [has_urgency |-> FALSE, has_financial_terms |-> FALSE,
                      has_action_required |-> FALSE, has_threats |-> FALSE,
                      requests_personal_info |-> FALSE, contains_urls |-> FALSE] ]

ScamResult ==
    [ prediction |-> <<"S", "C", "A", "M">>,
      language_code |-> <<"h", "i">>,
      risk_score |-> 130,
      confidence |-> [scam |-> 90, safe |-> 10],
      stats |-> [characters |-> 9, words |-> 2, urls |-> 1, phones |-> 1],
      explanation |-> <<"<", "b", ">">>,
      suspicious_keywords |-> << <<"w", "i", "n">> >>,
      urls_found |-> << <<"a", "&", "b">> >>,
      phone_numbers_found |-> << <<"9", "1">> >>,
      url_scans |-> << [url |-> <<"a", "&", "b">>, risk_level |-> "HIGH",
                        risk_score |-> 80,
                        warnings |-> << <<"'">>, <<"x">>, <<"y">>, <<"z">> >>] >>,
      indicators |-> [has_urgency |-> TRUE, has_financial_terms |-> TRUE,
                      has_threats |-> TRUE, contains_urls |-> TRUE],
      extracted_text |-> <<"<", "h", "i", ">">>,
      ocr_metadata |-> [words_detected |-> 1, average_confidence |-> 95,
                        languages_checked |-> <<"en", "fr", "de", "es">>] ]

\* A success body that lacks the indicators object
NoIndicators ==
    [ prediction |-> <<"S", "u", "s", "p", "i", "c", "i", "o", "u", "s">>,
      language |-> <<"e", "s">>,
      language_code |-> <<"!">>,
      risk_score |-> 40,
      confidence |-> [scam |-> 50, safe |-> 50],
      stats |-> [characters |-> 4, words |-> 1, urls |-> 0, phones |-> 1],
      explanation |-> <<"?">>,
      phone_numbers_found |-> << <<"1", "0", "0">> >> ]

\* A success body without a prediction
NoPrediction == [ risk_score |-> 50, confidence |-> [scam |-> 50, safe |-> 50] ]

\* A complete success body whose prediction is the empty string
EmptyPrediction == [SafeResult EXCEPT !.prediction = <<>>]

\* An image success body whose OCR metadata lacks languages_checked
NoLanguagesChecked ==
    [ prediction |-> <<"s", "a", "f", "e">>,
      risk_score |-> 5,
      extracted_text |-> <<"h", "i">>,
      ocr_metadata |-> [words_detected |-> 1, average_confidence |-> 95] ]

\* A complete success body that carries neither language nor language_code
NoLanguage ==
    [ prediction |-> <<"S", "A", "F", "E">>,
      risk_score |-> 12,
      confidence |-> [scam |-> 3, safe |-> 97],
      stats |-> [characters |-> 2, words |-> 1, urls |-> 0, phones |-> 0],
      explanation |-> <<"o", "k">>,
      suspicious_keywords |-> <<>>, urls_found |-> <<>>, phone_numbers_found |-> <<>>,
      indicators |-> [has_urgency |-> FALSE, has_financial_terms |-> FALSE,
                      has_action_required |-> FALSE, has_threats |-> FALSE,
                      requests_personal_info |-> FALSE, contains_urls |-> FALSE],
      extracted_text |-> <<"o", "k">> ]

\* A complete success body whose language code is well formed but names no
\* language, so that of() returns the code itself
UnnamedCode == [SafeResult EXCEPT !.language_code = <<"x", "x">>]

\* Risk scores on the wire, around the bounds of the gauge and the colour
\* thresholds
Scores == <<-5, 0, 39, 40, 69, 70, 100, 101>>

\* Predictions on the wire, in several spellings
Predictions ==
    << <<"S", "a", "f", "e">>,
       <<"S", "U", "S", "P", "I", "C", "I", "O", "U", "S">>,
       <<"s", "C", "a", "M">>,
       <<"f", "r", "a", "u", "d">> >>

\* Complete results that differ only in the values projected
Variations ==
    << [kind |-> "json", ok |-> TRUE, data |-> NoLanguage],
       [kind |-> "json", ok |-> TRUE, data |-> UnnamedCode] >>
    \o [i \in 1..Len(Scores) |->
           [kind |-> "json", ok |-> TRUE,
            data |-> [SafeResult EXCEPT !.risk_score = Scores[i]]]]
    \o [i \in 1..Len(Predictions) |->
           [kind |-> "json", ok |-> TRUE,
            data |-> [SafeResult EXCEPT !.prediction = Predictions[i]]]]

\* Non-success bodies that carry a guide without an error text, and an
\* empty error text
ErrorVariations ==
    << [kind |-> "json", ok |-> FALSE, data |-> [installation_guide |-> "Install tesseract"]],
       [kind |-> "json", ok |-> FALSE, data |-> [error |-> ""]] >>

\* The ways a request can end.  kind "transport": fetch() rejects.  kind
\* "unparsable": response.json() rejects.  kind "json": the body parses to
\* data, and ok is response.ok.  The first ten differ in how the handlers
\* treat them; the variations follow.
Outcomes == 1..10

Responses ==
    << [kind |-> "transport"],
       [kind |-> "unparsable"],
       [kind |-> "json", ok |-> FALSE,
        data |-> [error |-> "OCR unavailable", installation_guide |-> "Install tesseract"]],
       [kind |-> "json", ok |-> FALSE, data |-> [status |-> "failed"]],
       [kind |-> "json", ok |-> TRUE, data |-> SafeResult],
       [kind |-> "json", ok |-> TRUE, data |-> ScamResult],
       [kind |-> "json", ok |-> TRUE, data |-> NoIndicators],
       [kind |-> "json", ok |-> TRUE, data |-> NoPrediction],
       [kind |-> "json", ok |-> TRUE, data |-> EmptyPrediction],
       [kind |-> "json", ok |-> TRUE, data |-> NoLanguagesChecked] >>
    \o Variations \o ErrorVariations

\* data.error || fallback, and the truthiness of a plain string field
TruthyText(obj, field) == Has(obj, field) /\ obj[field] # ""
ErrorText(data, fallback) == IF TruthyText(data, "error") THEN data.error ELSE fallback

\* Mutant: the installation guide is appended for both forms.
ThrownByWithGuide(endpoint, r) ==
    CASE r.kind = "transport" -> <<"Failed to fetch">>
      [] r.kind = "unparsable" -> <<"Unexpected token < in JSON at position 0">>
      [] OTHER ->
            <<ErrorText(r.data, IF endpoint = "/analyze" THEN "Analysis failed"
                                ELSE "Image analysis failed")>>
            \o (IF TruthyText(r.data, "installation_guide")
                THEN <<"\n\n", r.data.installation_guide>> ELSE <<>>)

\* error.message of what the try block throws (lines 127-131 and 167-175),
\* as the pieces the code concatenates
ThrownBy(endpoint, r) ==
    CASE r.kind = "transport" -> <<"Failed to fetch">>
      [] r.kind = "unparsable" -> <<"Unexpected token < in JSON at position 0">>
      [] endpoint = "/analyze" -> <<ErrorText(r.data, "Analysis failed")>>
      [] OTHER ->
            <<ErrorText(r.data, "Image analysis failed")>>
            \o (IF TruthyText(r.data, "installation_guide")
                THEN <<"\n\n", r.data.installation_guide>> ELSE <<>>)

\* Mutant: the refresh is requested without looking at data.prediction.
ProjectAlwaysRefresh(endpoint, d, data) ==
    LET first == IF endpoint = "/analyze-image" /\ Truthy(data, "extracted_text")
                 THEN showExtractedText(d, data.extracted_text, data)
                 ELSE Done(d)
        shown == IF first.threw THEN first ELSE displayResults(first.dom, data)
    IN  [ dom |-> shown.dom, threw |-> shown.threw, history |-> ~shown.threw ]

\* The try block of analyzeText (lines 133-145) and of analyzeImage (lines
\* 177-194) on a success body: the regions it leaves, whether it threw, and
\* whether it reached addLocalHistory.
Project(endpoint, d, data) ==
    LET first == IF endpoint = "/analyze-image" /\ Truthy(data, "extracted_text")
                 THEN showExtractedText(d, data.extracted_text, data)
                 ELSE Done(d)
        shown == IF first.threw THEN first ELSE displayResults(first.dom, data)
    IN  [ dom |-> shown.dom, threw |-> shown.threw,
          history |-> ~shown.threw /\ Truthy(data, "prediction") ]

-----------------------------------------------------------------------------
(* State after DOMContentLoaded *)

\* What lastEvent records of the handler that ran last
Event(op, file, resp, outcome, stale) ==
    [op |-> op, file |-> file, resp |-> resp, outcome |-> outcome, stale |-> stale]

\* historyContainer as the markup leaves it
InitialFeed == [html |-> "markup", rows |-> <<>>]

\* Lines 3-16 and 270-273: nothing is staged, the image submit button is
\* disabled by the markup (line 79 is the script's only write to it), the
\* results area is hidden (line 460 is what shows it), and one history fetch
\* is already in flight when the page has a history region.
Init ==
    /\ messageInput = <<>>
    /\ selectedImage = NoFile
    /\ btnDisabled = TRUE
    /\ imagePreview = NoFile
    /\ reads = <<>>
    /\ loadingSpinner = "none"
    /\ resultsDisplay = "none"
    /\ dom = InitialDom
    /\ inFlight = EmptyBag
    /\ timeouts = <<>>
    /\ hasHistory \in BOOLEAN
    /\ histInFlight = IF hasHistory THEN <<[overtaken |-> FALSE]>> ELSE <<>>
    /\ feed = InitialFeed
    /\ alerted = NoAlert
    /\ logged = FALSE
    /\ lastEvent = Event("load", NoFile, 0, "", FALSE)

\* Removal of the i-th element of a sequence
Remove(seq, i) == SubSeq(seq, 1, i - 1) \o SubSeq(seq, i + 1, Len(seq))

-----------------------------------------------------------------------------
(* Input capture *)

\* The user edits the message box (its value is read at line 89).
InputText(t) ==
    /\ t # messageInput
    /\ messageInput' = t
    /\ alerted' = NoAlert
    /\ logged' = FALSE
    /\ lastEvent' = Event("input", NoFile, 0, "", FALSE)
    /\ UNCHANGED <<selectedImage, btnDisabled, imagePreview, reads, loadingSpinner,
                   resultsDisplay, dom, inFlight, timeouts, hasHistory,
                   histInFlight, feed>>

\* Mutant: a file of exactly 16 MiB is refused.
TooLargeInclusive(file) == file.size >= MaxImageBytes

\* The two checks of handleImageFile (lines 60 and 66)
BadType(file) == ~StartsWith(file.type, ImagePrefix)
TooLarge(file) == file.size > MaxImageBytes

\* Mutant: a file is staged only while nothing is staged.
StageFirstOnly(file) ==
    /\ Len(reads) < MaxReads
    /\ selectedImage' = IF selectedImage = NoFile THEN file ELSE selectedImage
    /\ reads' = Append(reads, file)
    /\ UNCHANGED btnDisabled

\* Mutant: the button is enabled as soon as the file is staged.
StageAndEnable(file) ==
    /\ Len(reads) < MaxReads
    /\ selectedImage' = file
    /\ reads' = Append(reads, file)
    /\ btnDisabled' = FALSE

\* Lines 71-81: the file is staged and its preview read is started; the
\* button is left to reader.onload.
Stage(file) ==
    /\ Len(reads) < MaxReads
    /\ selectedImage' = file
    /\ reads' = Append(reads, file)
    /\ UNCHANGED btnDisabled

\* handleImageFile (lines 58-82), reached from the change handler (line 53)
\* and from the drop handler (line 44) with the first file of the list.
handleImageFile(file) ==
    /\ IF BadType(file)
       THEN /\ alerted' = <<"Please select a valid image file">>
            /\ lastEvent' = Event("handleImageFile", file, 0, "rejected", FALSE)
            /\ UNCHANGED <<selectedImage, reads, btnDisabled>>
       ELSE IF TooLarge(file)
       THEN /\ alerted' = <<"File size must be less than 16MB">>
            /\ lastEvent' = Event("handleImageFile", file, 0, "rejected", FALSE)
            /\ UNCHANGED <<selectedImage, reads, btnDisabled>>
       ELSE /\ Stage(file)
            /\ alerted' = NoAlert
            /\ lastEvent' = Event("handleImageFile", file, 0, "staged", FALSE)
    /\ logged' = FALSE
    /\ UNCHANGED <<messageInput, imagePreview, loadingSpinner,
                   resultsDisplay, dom, inFlight, timeouts, hasHistory,
                   histInFlight, feed>>

\* reader.onload (lines 75-80) of the i-th pending read; reads complete in
\* any order.
ReaderOnload(i) ==
    /\ i \in 1..Len(reads)
    /\ imagePreview' = reads[i]
    /\ btnDisabled' = FALSE
    /\ reads' = Remove(reads, i)
    /\ alerted' = NoAlert
    /\ logged' = FALSE
    /\ lastEvent' = Event("onload", reads[i], 0, "", FALSE)
    /\ UNCHANGED <<messageInput, selectedImage, loadingSpinner, resultsDisplay,
                   dom, inFlight, timeouts, hasHistory, histInFlight, feed>>

-----------------------------------------------------------------------------
(* Submission *)

\* A request on the wire: its endpoint and what it carries; shown remembers
\* whether the results area was visible when the submission started.
Request(endpoint, message, image, shown) ==
    [endpoint |-> endpoint, message |-> message, image |-> image, shown |-> shown]

\* Lines 115-125 and 155-165: the synchronous start of analyzeText and
\* analyzeImage, up to the await of fetch.
StartAnalysis(request) ==
    /\ BagCardinality(inFlight) < MaxInFlight
    /\ loadingSpinner' = "block"
    /\ resultsDisplay' = "none"
    /\ inFlight' = inFlight (+) SetToBag({request})

\* Mutant: the message is tested without being trimmed.
SubmitTextUntrimmed ==
    /\ IF messageInput = <<>>
       THEN /\ alerted' = <<"Please enter a message to analyze">>
            /\ lastEvent' = Event("submitText", NoFile, 0, "rejected", FALSE)
            /\ UNCHANGED <<loadingSpinner, resultsDisplay, inFlight>>
       ELSE /\ StartAnalysis(Request("/analyze", messageInput, NoFile,
                                     resultsDisplay = "block"))
            /\ alerted' = NoAlert
            /\ lastEvent' = Event("submitText", NoFile, 0, "sent", FALSE)
    /\ logged' = FALSE
    /\ UNCHANGED <<messageInput, selectedImage, btnDisabled, imagePreview, reads,
                   dom, timeouts, hasHistory, histInFlight, feed>>

\* Submit handler of the text form (lines 86-97)
SubmitText ==
    /\ IF Trim(messageInput) = <<>>
       THEN /\ alerted' = <<"Please enter a message to analyze">>
            /\ lastEvent' = Event("submitText", NoFile, 0, "rejected", FALSE)
            /\ UNCHANGED <<loadingSpinner, resultsDisplay, inFlight>>
       ELSE /\ StartAnalysis(Request("/analyze", Trim(messageInput), NoFile,
                                     resultsDisplay = "block"))
            /\ alerted' = NoAlert
            /\ lastEvent' = Event("submitText", NoFile, 0, "sent", FALSE)
    /\ logged' = FALSE
    /\ UNCHANGED <<messageInput, selectedImage, btnDisabled, imagePreview, reads,
                   dom, timeouts, hasHistory, histInFlight, feed>>

\* Submit handler of the image form (lines 102-111)
SubmitImage ==
    /\ IF selectedImage = NoFile
       THEN /\ alerted' = <<"Please select an image first">>
            /\ lastEvent' = Event("submitImage", NoFile, 0, "rejected", FALSE)
            /\ UNCHANGED <<loadingSpinner, resultsDisplay, inFlight>>
       ELSE /\ StartAnalysis(Request("/analyze-image", <<>>, selectedImage,
                                     resultsDisplay = "block"))
            /\ alerted' = NoAlert
            /\ lastEvent' = Event("submitImage", NoFile, 0, "sent", FALSE)
    /\ logged' = FALSE
    /\ UNCHANGED <<messageInput, selectedImage, btnDisabled, imagePreview, reads,
                   dom, timeouts, hasHistory, histInFlight, feed>>

\* Mutant: the indicator is hidden at the end of the try block rather than
\* in a finally, so an error leaves it shown.
CatchWithoutFinally(message) ==
    /\ alerted' = <<"Error: ">> \o message
    /\ UNCHANGED loadingSpinner

\* The catch and finally blocks (lines 147-151 and 196-200)
CatchFinally(message) ==
    /\ alerted' = <<"Error: ">> \o message
    /\ loadingSpinner' = "none"

\* finally alone, when the try block ran to its end
Finally ==
    /\ alerted' = NoAlert
    /\ loadingSpinner' = "none"

\* The delay of the out-of-cycle refresh (line 277)
RefreshDelayMs == 500

\* addLocalHistory (lines 275-278)
addLocalHistory ==
    /\ Len(timeouts) < MaxTimeouts
    /\ timeouts' = Append(timeouts, RefreshDelayMs)

DoneOp(req) ==
    IF req.endpoint = "/analyze" THEN "analyzeTextDone" ELSE "analyzeImageDone"

\* Mutant: the refresh of the feed is requested in the finally block, so a
\* failed submission schedules it too.
AnalyzeDoneRefreshAlways(req, k) ==
    /\ BagIn(req, inFlight)
    /\ k \in 1..Len(Responses)
    /\ LET r == Responses[k]
           failed == r.kind # "json" \/ ~r.ok
           p == Project(req.endpoint, dom, r.data)
       IN  /\ inFlight' = inFlight (-) SetToBag({req})
           /\ addLocalHistory
           /\ IF failed
              THEN /\ CatchFinally(ThrownBy(req.endpoint, r))
                   /\ lastEvent' = Event(DoneOp(req), NoFile, k,
                                         IF r.kind = "json" THEN "error" ELSE r.kind,
                                         FALSE)
                   /\ UNCHANGED <<dom, resultsDisplay>>
              ELSE IF p.threw
              THEN /\ CatchFinally(<<"TypeError">>)
                   /\ dom' = p.dom
                   /\ lastEvent' = Event(DoneOp(req), NoFile, k, "aborted", FALSE)
                   /\ UNCHANGED resultsDisplay
              ELSE /\ Finally
                   /\ dom' = p.dom
                   /\ resultsDisplay' = "block"
                   /\ lastEvent' = Event(DoneOp(req), NoFile, k, "rendered", FALSE)
    /\ logged' = FALSE
    /\ UNCHANGED <<messageInput, selectedImage, btnDisabled, imagePreview, reads,
                   hasHistory, histInFlight, feed>>

\* The continuation of analyzeText / analyzeImage after the await (lines
\* 127-151 and 167-200), for the pending request req ending as Responses[k].
AnalyzeDone(req, k) ==
    /\ BagIn(req, inFlight)
    /\ k \in 1..Len(Responses)
    /\ LET r == Responses[k]
           failed == r.kind # "json" \/ ~r.ok
           p == Project(req.endpoint, dom, r.data)
       IN  /\ inFlight' = inFlight (-) SetToBag({req})
           /\ IF failed
              THEN /\ CatchFinally(ThrownBy(req.endpoint, r))
                   /\ lastEvent' = Event(DoneOp(req), NoFile, k,
                                         IF r.kind = "json" THEN "error" ELSE r.kind,
                                         FALSE)
                   /\ UNCHANGED <<dom, resultsDisplay, timeouts>>
              ELSE IF p.threw
              THEN /\ CatchFinally(<<"TypeError">>)
                   /\ dom' = p.dom
                   /\ lastEvent' = Event(DoneOp(req), NoFile, k, "aborted",
                                         FALSE)
                   /\ UNCHANGED <<resultsDisplay, timeouts>>
              ELSE /\ Finally
                   /\ dom' = p.dom
                   /\ resultsDisplay' = "block"
                   /\ IF p.history THEN addLocalHistory ELSE UNCHANGED timeouts
                   /\ lastEvent' = Event(DoneOp(req), NoFile, k, "rendered",
                                         FALSE)
    /\ logged' = FALSE
    /\ UNCHANGED <<messageInput, selectedImage, btnDisabled, imagePreview, reads,
                   hasHistory, histInFlight, feed>>

-----------------------------------------------------------------------------
(* The recent-scans feed *)

Report(risk, language, code, source, time) ==
    [risk_level |-> risk, language |-> language, language_code |-> code,
     source |-> source, timestamp |-> time]

SafeReport ==
    Report(<<"S", "a", "f", "e">>, <<"e", "n">>, <<"e", "s">>, "text", "10:30")
ScamReport ==
    Report(<<"S", "C", "A", "M">>, <<>>, Unknown, "image", "10:31")
SuspiciousReport ==
    Report(<<"s", "u", "s", "p", "i", "c", "i", "o", "u", "s">>,
           <<"x">>, <<"!">>, "text", "10:32")

\* The ways a history fetch can end.  A JSON body is null, a list, or an
\* object that is not a list.
Bodies ==
    << [kind |-> "transport"],
       [kind |-> "unparsable"],
       [kind |-> "json", type |-> "null"],
       [kind |-> "json", type |-> "array", items |-> <<>>],
       [kind |-> "json", type |-> "array", items |-> <<SafeReport, ScamReport>>],
       [kind |-> "json", type |-> "array", items |-> <<SuspiciousReport>>],
       [kind |-> "json", type |-> "array",
        items |-> <<SafeReport, [language |-> <<"e", "n">>, source |-> "text",
                                 timestamp |-> "10:33"]>>],
       [kind |-> "json", type |-> "array",
        items |-> <<[risk_level |-> <<"S", "A", "F", "E">>]>>],
       [kind |-> "json", type |-> "object"] >>

\* !reports || reports.length === 0 (line 232)
NoReports(body) ==
    body.type = "null" \/ (body.type = "array" /\ body.items = <<>>)

\* One row of the feed (lines 239-261)
IconClass(risk) ==
    IF ToLowerCase(risk) = <<"s", "a", "f", "e">> THEN "bi-shield-check text-success"
    ELSE IF ToLowerCase(risk) = <<"s", "u", "s", "p", "i", "c", "i", "o", "u", "s">>
         THEN "bi-shield-exclamation text-warning"
    ELSE "bi-shield-exclamation text-danger badge-pulse"

Row(report) ==
    [ iconClass |-> IconClass(report.risk_level),
      typeStr |-> IF Has(report, "source") /\ report.source = "image"
                  THEN "image" ELSE "text",
      displayLanguage |->
          ResolveLanguage(IF Truthy(report, "language") THEN report.language
                          ELSE <<"U", "n", "k", "n", "o", "w", "n">>, report),
      riskLevel |-> report.risk_level,
      timeStr |-> IF Has(report, "timestamp") THEN report.timestamp
                  ELSE "Invalid Date" ]

\* The rows before the first entry that has no risk_level
RECURSIVE RowsUntilThrow(_)
RowsUntilThrow(items) ==
    IF items = <<>> \/ ~Has(Head(items), "risk_level") THEN <<>>
    ELSE <<Row(Head(items))>> \o RowsUntilThrow(Tail(items))

\* Mutant: each row is appended to the feed as it is built.
RenderFeedRowByRow(old, body) ==
    IF body.kind # "json" THEN [feed |-> old, threw |-> TRUE]
    ELSE IF NoReports(body)
    THEN [feed |-> [html |-> "No recent scans found.", rows |-> <<>>], threw |-> FALSE]
    ELSE IF body.type # "array" THEN [feed |-> old, threw |-> TRUE]
    ELSE [feed |-> [html |-> "rows", rows |-> RowsUntilThrow(body.items)],
          threw |-> \E i \in 1..Len(body.items) : ~Has(body.items[i], "risk_level")]

\* The body of the try block after the await (lines 230-264): the feed it
\* leaves and whether it threw.  The rows are collected in a string that is
\* assigned once, after the loop.
RenderFeed(old, body) ==
    IF body.kind # "json" THEN [feed |-> old, threw |-> TRUE]
    ELSE IF NoReports(body)
    THEN [feed |-> [html |-> "No recent scans found.", rows |-> <<>>], threw |-> FALSE]
    ELSE IF body.type # "array" THEN [feed |-> old, threw |-> TRUE]
    ELSE IF \E i \in 1..Len(body.items) : ~Has(body.items[i], "risk_level")
    THEN [feed |-> old, threw |-> TRUE]
    ELSE [feed |-> [html |-> "rows",
                    rows |-> [i \in 1..Len(body.items) |-> Row(body.items[i])]],
          threw |-> FALSE]

\* Mutant: the fetch is dispatched without looking for the history region.
FetchWithoutRegion ==
    /\ Len(histInFlight) < MaxFetches
    /\ histInFlight' = Append(histInFlight, [overtaken |-> FALSE])

\* fetchLiveRecentScans up to its await (lines 224-229)
fetchLiveRecentScans ==
    IF hasHistory
    THEN /\ Len(histInFlight) < MaxFetches
         /\ histInFlight' = Append(histInFlight, [overtaken |-> FALSE])
    ELSE UNCHANGED histInFlight

\* The setInterval callback (line 272); the interval exists only when the
\* page has a history region (line 270).
IntervalFires ==
    /\ hasHistory
    /\ fetchLiveRecentScans
    /\ alerted' = NoAlert
    /\ logged' = FALSE
    /\ lastEvent' = Event("interval", NoFile, 0, "", FALSE)
    /\ UNCHANGED <<messageInput, selectedImage, btnDisabled, imagePreview, reads,
                   loadingSpinner, resultsDisplay, dom, inFlight, timeouts,
                   hasHistory, feed>>

\* The setTimeout callback (line 277)
TimeoutFires ==
    /\ timeouts # <<>>
    /\ timeouts' = Tail(timeouts)
    /\ fetchLiveRecentScans
    /\ alerted' = NoAlert
    /\ logged' = FALSE
    /\ lastEvent' = Event("timeout", NoFile, 0, "", FALSE)
    /\ UNCHANGED <<messageInput, selectedImage, btnDisabled, imagePreview, reads,
                   loadingSpinner, resultsDisplay, dom, inFlight, hasHistory, feed>>

\* Mutant: the response of a fetch that a later one has overtaken is dropped.
WriteFeedIfFresh(fetch, out) == IF fetch.overtaken THEN feed ELSE out.feed

\* Lines 233 and 264: whatever the try block computed is assigned, whichever
\* fetch it came from.
WriteFeed(fetch, out) == out.feed

\* The continuation of fetchLiveRecentScans after its awaits (lines 230-267)
\* for the i-th pending fetch ending as Bodies[k].  A fetch that writes the
\* feed marks the fetches dispatched before it as overtaken.
HistoryDone(i, k) ==
    /\ i \in 1..Len(histInFlight)
    /\ k \in 1..Len(Bodies)
    /\ LET out == RenderFeed(feed, Bodies[k])
           rest == Remove(histInFlight, i)
       IN  /\ feed' = WriteFeed(histInFlight[i], out)
           /\ logged' = out.threw
           /\ histInFlight' =
                  IF out.threw THEN rest
                  ELSE [j \in 1..Len(rest) |->
                           IF j < i THEN [overtaken |-> TRUE] ELSE rest[j]]
           /\ lastEvent' = Event("historyDone", NoFile, k,
                                 IF out.threw THEN "failed" ELSE "written",
                                 histInFlight[i].overtaken)
    /\ alerted' = NoAlert
    /\ UNCHANGED <<messageInput, selectedImage, btnDisabled, imagePreview, reads,
                   loadingSpinner, resultsDisplay, dom, inFlight, timeouts,
                   hasHistory>>

-----------------------------------------------------------------------------
(* Specifications.  The page is three loosely coupled machines; each        *)
(* specification runs one of them in full and the part of the others that   *)
(* feeds it.                                                                *)

Capture ==
    \/ \E t \in Texts : InputText(t)
    \/ \E file \in Files : handleImageFile(file)
    \/ \E i \in 1..MaxReads : ReaderOnload(i)

Submit == SubmitText \/ SubmitImage

History ==
    \/ IntervalFires
    \/ TimeoutFires
    \/ \E i \in 1..MaxFetches, k \in 1..Len(Bodies) : HistoryDone(i, k)

\* Responses that fail before anything is projected
Failures == {1, 3}

\* A failure and a complete result
FailureOrSafe == {1, 5}

\* Input capture in full, with a service that is down.
NextCapture ==
    \/ Capture
    \/ Submit
    \/ \E req \in BagToSet(inFlight), k \in Failures : AnalyzeDone(req, k)

InitCapture == Init /\ ~hasHistory

SpecCapture == InitCapture /\ [][NextCapture]_vars

\* The page once the user has typed a message and may have staged an image
\* whose preview has loaded.
InitStaged ==
    /\ messageInput \in {t \in Texts : t # <<>>}
    /\ selectedImage \in {NoFile, SmallGif}
    /\ btnDisabled = (selectedImage = NoFile)
    /\ imagePreview = selectedImage
    /\ reads = <<>>
    /\ loadingSpinner = "none"
    /\ resultsDisplay = "none"
    /\ dom = InitialDom
    /\ inFlight = EmptyBag
    /\ timeouts = <<>>
    /\ hasHistory = FALSE
    /\ histInFlight = <<>>
    /\ feed = InitialFeed
    /\ alerted = NoAlert
    /\ logged = FALSE
    /\ lastEvent = Event("load", NoFile, 0, "", FALSE)

\* Submission in full, on a page without a history region.
Next ==
    \/ Submit
    \/ \E req \in BagToSet(inFlight), k \in Outcomes : AnalyzeDone(req, k)
    \/ TimeoutFires

Spec == InitStaged /\ [][Next]_vars

\* Responses whose body is projected
Successes == {k \in 1..Len(Responses) : Responses[k].kind = "json" /\ Responses[k].ok}

\* A user who waits for each response before submitting again
SubmitWhenIdle == inFlight = EmptyBag /\ Submit

\* Projection in full: every success body, one submission at a time.
NextProjection ==
    \/ SubmitWhenIdle
    \/ \E req \in BagToSet(inFlight), k \in Successes : AnalyzeDone(req, k)
    \/ TimeoutFires

SpecProjection == InitStaged /\ [][NextProjection]_vars

\* Responses that end in the catch block before anything is projected
Errors == {k \in 1..Len(Responses) : Responses[k].kind # "json" \/ ~Responses[k].ok}

\* Submissions of both forms against a service that fails in every way or
\* returns a complete result.
NextErrors ==
    \/ Submit
    \/ \E req \in BagToSet(inFlight), k \in Errors \cup {5} : AnalyzeDone(req, k)
    \/ TimeoutFires

SpecErrors == InitStaged /\ [][NextErrors]_vars

\* The feed in full, on a page where the user has typed a message, with
\* text submissions that fail or succeed.
InitHistory ==
    /\ messageInput = <<" ", "h", "i", "\n">>
    /\ selectedImage = NoFile
    /\ btnDisabled = TRUE
    /\ imagePreview = NoFile
    /\ reads = <<>>
    /\ loadingSpinner = "none"
    /\ resultsDisplay = "none"
    /\ dom = InitialDom
    /\ inFlight = EmptyBag
    /\ timeouts = <<>>
    /\ hasHistory = TRUE
    /\ histInFlight = <<[overtaken |-> FALSE]>>
    /\ feed = InitialFeed
    /\ alerted = NoAlert
    /\ logged = FALSE
    /\ lastEvent = Event("load", NoFile, 0, "", FALSE)

NextHistory ==
    \/ History
    \/ SubmitText
    \/ \E req \in BagToSet(inFlight), k \in FailureOrSafe : AnalyzeDone(req, k)

SpecHistory == InitHistory /\ [][NextHistory]_vars

\* Every way a text submission can fail, and a complete result
FailuresAndSafe == {1, 2, 3, 4, 5}

\* A history fetch that fails and one that brings rows
FailedOrRows == {1, 5}

\* Text submissions that fail in every way while the feed is polled.
NextRecovery ==
    \/ IntervalFires
    \/ TimeoutFires
    \/ \E i \in 1..MaxFetches, k \in FailedOrRows : HistoryDone(i, k)
    \/ SubmitText
    \/ \E req \in BagToSet(inFlight), k \in FailuresAndSafe : AnalyzeDone(req, k)

SpecRecovery == InitHistory /\ [][NextRecovery]_vars

\* The poller on a page with or without a history region, with text
\* submissions that fail or succeed.
InitPoller ==
    /\ messageInput = <<" ", "h", "i", "\n">>
    /\ selectedImage = NoFile
    /\ btnDisabled = TRUE
    /\ imagePreview = NoFile
    /\ reads = <<>>
    /\ loadingSpinner = "none"
    /\ resultsDisplay = "none"
    /\ dom = InitialDom
    /\ inFlight = EmptyBag
    /\ timeouts = <<>>
    /\ hasHistory \in BOOLEAN
    /\ histInFlight = IF hasHistory THEN <<[overtaken |-> FALSE]>> ELSE <<>>
    /\ feed = InitialFeed
    /\ alerted = NoAlert
    /\ logged = FALSE
    /\ lastEvent = Event("load", NoFile, 0, "", FALSE)

\* The interval timer is never cleared, so its callback runs again and again
\* whatever else is pending (strong fairness: the bound on pending fetches
\* disables it only in the model), and every fetch promise settles.
SpecPoller ==
    /\ InitPoller
    /\ [][NextRecovery]_vars
    /\ SF_vars(IntervalFires)
    /\ WF_vars(\E i \in 1..MaxFetches, k \in FailedOrRows : HistoryDone(i, k))

-----------------------------------------------------------------------------
(* Properties of submission, checked under Spec *)

DoneOps == {"analyzeTextDone", "analyzeImageDone"}

\* The last handler was the completion of a request that ended with a
\* transport failure, an unparsable body or a service error.
FailedCompletion ==
    lastEvent.op \in DoneOps /\ lastEvent.outcome \in {"transport", "unparsable", "error"}

\* C1: if a result was rendered and visible when a submission started and
\* that submission fails, then the step that surfaces the error leaves the
\* results area visible and its content as it was.
C1_ResultsVisibleAfterFailure ==
    [][ (/\ FailedCompletion'
         /\ \E req \in BagToSet(inFlight) :
                req.shown /\ CopiesIn(req, inFlight') < CopiesIn(req, inFlight))
        => resultsDisplay' = "block" /\ dom' = dom ]_vars

\* C2: at most one analysis request is in flight.
C2_OneRequestInFlight == BagCardinality(inFlight) <= 1

\* C3: a step that dispatches a request leaves the loading indicator shown,
\* and a step in which a request completes, whatever its outcome, leaves the
\* loading indicator hidden.
C3_LoadingBracketsRequest ==
    [][ /\ BagCardinality(inFlight') > BagCardinality(inFlight)
           => loadingSpinner' = "block"
        /\ BagCardinality(inFlight') < BagCardinality(inFlight)
           => loadingSpinner' = "none" ]_vars

\* C3 witness: the only pending request has ended with an unparsable body and
\* the indicator, shown while it was pending, is hidden.
C3_Witness ==
    /\ lastEvent.op \in DoneOps
    /\ lastEvent.outcome = "unparsable"
    /\ inFlight = EmptyBag
    /\ loadingSpinner = "none"

\* What a rejected submission must leave alone
SubmissionFrame ==
    <<loadingSpinner, resultsDisplay, dom, inFlight, timeouts, messageInput,
      selectedImage, imagePreview, btnDisabled, reads, feed, histInFlight>>

\* C5: a text submit while the message trims to the empty string, and an
\* image submit while nothing is staged, raise an alert in the same step,
\* dispatch no request and change neither the loading indicator, the results
\* area, the staged input nor the feed.
C5_RejectedSubmissionChangesNothing ==
    [][ ( \/ lastEvent'.op = "submitText" /\ Trim(messageInput) = <<>>
          \/ lastEvent'.op = "submitImage" /\ selectedImage = NoFile )
        => /\ alerted' # NoAlert
           /\ UNCHANGED SubmissionFrame ]_vars

\* C5 witness: a whitespace-only message has just been rejected while an
\* earlier result is on display.
C5_Witness ==
    /\ lastEvent.op = "submitText"
    /\ lastEvent.outcome = "rejected"
    /\ messageInput # <<>>
    /\ resultsDisplay = "block"
    /\ dom # InitialDom
    /\ alerted = <<"Please enter a message to analyze">>

\* The response is a success whose body carries a prediction.
CarriesPrediction(k) ==
    /\ k \in 1..Len(Responses)
    /\ Responses[k].kind = "json"
    /\ Responses[k].ok
    /\ Truthy(Responses[k].data, "prediction")

\* C8 as stated: every completion whose response is a success carrying a
\* prediction schedules one refresh 500 ms later, and every other completion
\* or rejection schedules none.
C8_EverySuccessSchedulesRefresh ==
    [][ lastEvent'.op \in DoneOps \cup {"submitText", "submitImage"}
        => IF lastEvent'.op \in DoneOps /\ CarriesPrediction(lastEvent'.resp)
           THEN timeouts' = Append(timeouts, 500)
           ELSE timeouts' = timeouts ]_vars

\* C8 amended: a completion schedules one refresh 500 ms later exactly when
\* its response is a success carrying a prediction and the projection ran to
\* its end (no error is surfaced); a success whose projection aborts on a
\* missing field, a failure and a rejection schedule none.
C8_RenderedSuccessSchedulesRefresh ==
    [][ lastEvent'.op \in DoneOps \cup {"submitText", "submitImage"}
        => IF /\ lastEvent'.op \in DoneOps
              /\ CarriesPrediction(lastEvent'.resp)
              /\ alerted' = NoAlert
           THEN timeouts' = Append(timeouts, 500)
           ELSE timeouts' = timeouts ]_vars

\* C8 witness: a rendered success has left one refresh pending.
C8_Witness ==
    /\ lastEvent.op \in DoneOps
    /\ CarriesPrediction(lastEvent.resp)
    /\ alerted = NoAlert
    /\ resultsDisplay = "block"
    /\ timeouts = <<500>>

-----------------------------------------------------------------------------
(* Properties of input capture, checked under SpecCapture *)

\* A MIME type starting with "image/" and a size of at most 16 MiB
AcceptableImage(file) ==
    /\ Len(file.type) >= 6
    /\ SubSeq(file.type, 1, 6) = <<"i", "m", "a", "g", "e", "/">>
    /\ file.size <= 16777216

C7_EnabledIffStaged == (~btnDisabled) <=> (selectedImage # NoFile)

\* C7 amended: the button is enabled only when an image is staged, and what
\* enables it is the completion of a preview read, not the staging: it stays
\* disabled while the first preview read is pending, and once enabled it is
\* not disabled again.
C7_EnabledByPreviewLoad ==
    /\ [](~btnDisabled => selectedImage # NoFile)
    /\ [][ btnDisabled' # btnDisabled => lastEvent'.op = "onload" /\ ~btnDisabled' ]_vars
    /\ [][ lastEvent'.op = "onload" => ~btnDisabled' ]_vars

\* C7 witness: an image is staged, its preview read is pending, and the
\* button is still disabled.
C7_Witness ==
    /\ selectedImage # NoFile
    /\ reads = <<selectedImage>>
    /\ btnDisabled

\* C22: once no preview read is pending, the preview shows the staged
\* image.
C22_PreviewShowsStagedImage ==
    (reads = <<>> /\ selectedImage # NoFile) => imagePreview = selectedImage

-----------------------------------------------------------------------------
(* Properties of the recent-scans feed, checked under SpecHistory *)

\* The body is one the code renders: null or an empty list (the placeholder),
\* or a list whose every entry has a risk_level.
Renderable(body) ==
    /\ body.kind = "json"
    /\ \/ body.type = "null"
       \/ /\ body.type = "array"
          /\ \A i \in 1..Len(body.items) : "risk_level" \in DOMAIN body.items[i]

\* The feed a renderable body must produce
ExpectedFeed(body) ==
    IF body.type = "null" \/ body.items = <<>>
    THEN [html |-> "No recent scans found.", rows |-> <<>>]
    ELSE [html |-> "rows", rows |-> [i \in 1..Len(body.items) |-> Row(body.items[i])]]

\* C9: whenever a history fetch resolves with a renderable body the feed
\* becomes the rendering of that body, whether or not a fetch dispatched
\* later has already written the feed; no other handler writes the feed.
C9_LastResolvedWins ==
    [][ IF lastEvent'.op = "historyDone"
        THEN Renderable(Bodies[lastEvent'.resp])
             => feed' = ExpectedFeed(Bodies[lastEvent'.resp])
        ELSE feed' = feed ]_vars

\* C9 witness: two fetches were in flight together; the one dispatched later
\* resolved first, and the earlier one has now overwritten its rows.
C9_Witness ==
    /\ lastEvent.op = "historyDone"
    /\ lastEvent.stale
    /\ lastEvent.outcome = "written"
    /\ feed = ExpectedFeed(Bodies[lastEvent.resp])
    /\ feed.html = "rows"

\* The fetch failed in one of the ways C10 lists: transport failure,
\* unparsable body, a body that is not a list, an entry without risk_level.
FailedAsStated(body) ==
    \/ body.kind # "json"
    \/ body.type # "array"
    \/ \E i \in 1..Len(body.items) : "risk_level" \notin DOMAIN body.items[i]

\* C10 as stated: a failed history fetch leaves the feed as it was and raises
\* no alert.
C10_FailedFetchKeepsFeed ==
    [][ (lastEvent'.op = "historyDone" /\ FailedAsStated(Bodies[lastEvent'.resp]))
        => feed' = feed /\ alerted' = NoAlert ]_vars

\* C10 amended: a transport failure, an unparsable body, a body that is
\* neither a list nor null, and a list with an entry that has no risk_level
\* leave the feed exactly as it was, are logged and raise no alert; a null
\* body is taken for an empty list and puts the placeholder in the feed.
C10_ThrowingFetchKeepsFeed ==
    [][ lastEvent'.op = "historyDone"
        => LET body == Bodies[lastEvent'.resp]
           IN  /\ alerted' = NoAlert
               /\ (FailedAsStated(body) /\ ~Renderable(body))
                  => feed' = feed /\ logged'
               /\ (body.kind = "json" /\ body.type = "null")
                  => feed' = [html |-> "No recent scans found.", rows |-> <<>>] ]_vars

\* C10 witness: a list whose second entry has no risk_level has just failed
\* to render, and the rows of an earlier response are still in the feed.
C10_Witness ==
    /\ lastEvent.op = "historyDone"
    /\ lastEvent.resp = 7
    /\ logged
    /\ feed.html = "rows"


-----------------------------------------------------------------------------
(* Properties of projection, checked under Spec and SpecProjection *)

\* The last handler was the completion of a request whose response was a
\* success, projected to the end or until it threw.
Projected == lastEvent.op \in DoneOps /\ lastEvent.outcome \in {"rendered", "aborted"}

EndpointOf(op) == IF op = "analyzeTextDone" THEN "/analyze" ELSE "/analyze-image"

\* The sections the script creates
CreatedSections == {"extractedTextSection", "urlScanSection"}

\* C13: when two requests of the same form complete one after the other
\* with the same result, the second projection leaves the result regions and
\* the visibility of the results area as the first left them; projecting a
\* result once more onto the regions it has just been projected onto changes
\* nothing; and no created section occurs twice in the results area.
C13_ProjectionIdempotent ==
    /\ [][ (Projected /\ Projected' /\ inFlight' # inFlight
              /\ lastEvent'.op = lastEvent.op /\ lastEvent'.resp = lastEvent.resp)
           => dom' = dom /\ resultsDisplay' = resultsDisplay ]_vars
    /\ [](Projected
            => Project(EndpointOf(lastEvent.op), dom,
                       Responses[lastEvent.resp].data).dom = dom)
    /\ [](\A id \in CreatedSections :
             Cardinality({i \in 1..Len(dom.layout) : dom.layout[i] = id}) <= 1)

\* A result with keywords, URLs, phone numbers, URL scans and extracted text
\* has been rendered for an image while the refresh of an earlier rendering
\* of a result with a prediction is still pending.
C13_Witness ==
    /\ lastEvent.op = "analyzeImageDone"
    /\ lastEvent.outcome = "rendered"
    /\ lastEvent.resp = 6
    /\ Len(timeouts) = 2
    /\ Len(dom.keywords) = 1
    /\ Len(dom.urlScan.items) = 1
    /\ dom.layout = <<"extractedTextSection", "indicatorsSection", "urlScanSection">>

\* The last handler rendered a result to the end.
Rendered == lastEvent.op \in DoneOps /\ lastEvent.outcome = "rendered"

\* C14: after a result has been rendered, the URL scan section is shown
\* exactly when that result has a non-empty list of URL scans, and it then
\* shows the scans of that result.
C14_UrlScanSectionFollowsLastResult ==
    Rendered =>
        LET data == Responses[lastEvent.resp].data
        IN  IF NonEmptyList(data, "url_scans")
            THEN /\ Present(dom, "urlScanSection")
                 /\ dom.urlScan.display = "block"
                 /\ dom.urlScan.items =
                        [i \in 1..Len(data.url_scans) |-> UrlScanItem(data.url_scans[i])]
            ELSE ~Present(dom, "urlScanSection") \/ dom.urlScan.display = "none"

\* C15: after a result has been rendered, the extracted-text section is
\* shown only if that result came from an image submission and carries
\* extracted text, and it is then the first section of the results area.
C15_ExtractedTextFollowsLastResult ==
    (Rendered /\ Present(dom, "extractedTextSection") /\ dom.extracted.display = "block")
        => /\ lastEvent.op = "analyzeImageDone"
           /\ Truthy(Responses[lastEvent.resp].data, "extracted_text")
           /\ dom.extracted.text = escapeHtml(Responses[lastEvent.resp].data.extracted_text)
           /\ Head(dom.layout) = "extractedTextSection"

\* C18: after a result has been rendered, the language label is the display
\* name of the language code with its first character in upper case when the
\* code is present, is not "unknown" and resolves; otherwise the language of
\* the result as it is; and for an image result without a language it is
\* not empty.
C18_LanguageLabel ==
    Rendered =>
        LET data == Responses[lastEvent.resp].data
            coded == /\ Has(data, "language_code") /\ data.language_code # <<>>
                     /\ data.language_code # Unknown
                     /\ data.language_code \in WellFormedCodes
        IN  IF coded
            THEN dom.detectedLanguage = Capitalize(DisplayNameOf(data.language_code))
            ELSE IF Has(data, "language") /\ data.language # <<>>
            THEN dom.detectedLanguage = data.language
            ELSE lastEvent.op = "analyzeImageDone" => dom.detectedLanguage # <<>>

\* C19: after a result has been rendered, the gauge shows the risk score of
\* the result brought into 0..100 (0 for a score below 0, 100 for a score
\* above 100, the score itself otherwise), and the stroke is the danger
\* colour from 70, the warning colour from 40 to 69, the safe colour below.
C19_GaugeClamped ==
    Rendered =>
        LET score == Responses[lastEvent.resp].data.risk_score
            gauge == dom.riskScoreValue
        IN  /\ gauge \in 0..100
            /\ score \in 0..100 => gauge = score
            /\ score < 0 => gauge = 0
            /\ score > 100 => gauge = 100
            /\ gauge >= 70 => dom.riskScoreStroke = "#ef4444"
            /\ gauge \in 40..69 => dom.riskScoreStroke = "#f59e0b"
            /\ gauge < 40 => dom.riskScoreStroke = "#10b981"

\* A result with a negative risk score has been rendered.
C19_Witness ==
    /\ Rendered
    /\ Responses[lastEvent.resp].data.risk_score < 0
    /\ dom.riskScoreValue = 0
    /\ dom.riskScoreStroke = "#10b981"

\* C20: after a result has been rendered, the badge carries exactly one
\* class, the one of that result's prediction whatever its letter case:
\* risk-safe for safe, risk-suspicious for suspicious, risk-scam for
\* anything else.
C20_BadgeHasOneClass ==
    Rendered =>
        LET prediction == ToLowerCase(Responses[lastEvent.resp].data.prediction)
        IN  /\ Cardinality(dom.riskLevelClass) = 1
            /\ dom.riskLevelClass =
                   { IF prediction = <<"s", "a", "f", "e">> THEN "risk-safe"
                     ELSE IF prediction = <<"s", "u", "s", "p", "i", "c", "i", "o", "u", "s">>
                          THEN "risk-suspicious"
                     ELSE "risk-scam" }

\* A result spelled "Safe" has been rendered after a result with keywords,
\* whose badge was of another class.
C20_Witness ==
    /\ Rendered
    /\ Responses[lastEvent.resp].data.prediction = <<"S", "a", "f", "e">>
    /\ dom.riskLevelClass = {"risk-safe"}
    /\ dom.keywords # <<>>
    /\ dom.keywordsDisplay = "none"

\* Characters of the texts handed to escapeHtml, and the texts up to
\* MaxTextLen characters
Alphabet == {"&", "<", ">", "\"", "'", "a", ";"}
TextsToEscape == UNION {[1..n -> Alphabet] : n \in 0..MaxTextLen}

Entities ==
    { <<"&", "a", "m", "p", ";">>, <<"&", "l", "t", ";">>, <<"&", "g", "t", ";">>,
      <<"&", "q", "u", "o", "t", ";">>, <<"&", "#", "0", "3", "9", ";">> }

\* A piece of markup holds none of < > " ' and each & in it begins an entity.
NoRawMarkup(out) ==
    \A i \in 1..Len(out) :
        /\ out[i] \notin {"<", ">", "\"", "'"}
        /\ out[i] = "&" =>
              \E e \in Entities :
                  i + Len(e) - 1 <= Len(out) /\ SubSeq(out, i, i + Len(e) - 1) = e

\* What is left of a text without the five characters
Plain(s) == SelectSeq(s, LAMBDA c : c \notin {"&", "<", ">", "\"", "'"})

\* The strings the script assigns through innerHTML
MarkupSinks(d) ==
    {d.extracted.text}
    \cup {d.urls[i] : i \in 1..Len(d.urls)}
    \cup {d.phones[i] : i \in 1..Len(d.phones)}
    \cup {d.urlScan.items[i].url : i \in 1..Len(d.urlScan.items)}
    \cup UNION {{d.urlScan.items[i].warnings[j] :
                    j \in 1..Len(d.urlScan.items[i].warnings)} :
                i \in 1..Len(d.urlScan.items)}

\* C21: escapeHtml writes the entity of each of & < > " ' and every other
\* character as it is, so its output holds no raw < > " ' and every & in it
\* begins an entity; in every state the extracted text, the URLs, the phone
\* numbers and the URL, and warnings of each URL scan in the markup are
\* such outputs; and a rendered explanation and rendered keywords are the
\* result's own text, assigned as plain text.
C21_TextIsEscapedOrPlain ==
    /\ lastEvent.op = "load" =>
          \A s \in TextsToEscape :
              LET out == escapeHtml(s)
                  specials == Len(s) - Len(Plain(s))
              IN  /\ NoRawMarkup(out)
                  /\ Plain(s) = s => out = s
                  /\ Len(s) = 1 =>
                        out = CASE s[1] = "&" -> <<"&", "a", "m", "p", ";">>
                                [] s[1] = "<" -> <<"&", "l", "t", ";">>
                                [] s[1] = ">" -> <<"&", "g", "t", ";">>
                                [] s[1] = "\"" -> <<"&", "q", "u", "o", "t", ";">>
                                [] s[1] = "'" -> <<"&", "#", "0", "3", "9", ";">>
                                [] OTHER -> s
                  /\ \A i \in 1..Len(s) :
                        out = escapeHtml(SubSeq(s, 1, i)) \o escapeHtml(SubSeq(s, i + 1, Len(s)))
                  /\ Len(SelectSeq(out, LAMBDA c : c = "&")) = specials
    /\ \A m \in MarkupSinks(dom) : NoRawMarkup(m)
    /\ Rendered =>
          LET data == Responses[lastEvent.resp].data
          IN  /\ dom.explanation = data.explanation
              /\ NonEmptyList(data, "suspicious_keywords")
                    => dom.keywords = Slice(data.suspicious_keywords, 10)
              /\ NonEmptyList(data, "urls_found")
                    => /\ Len(dom.urls) = Len(data.urls_found)
                       /\ \A i \in 1..Len(dom.urls) :
                             dom.urls[i] = escapeHtml(data.urls_found[i])

\* A result whose explanation, extracted text, URL and warning hold markup
\* characters has been rendered for an image.
C21_Witness ==
    /\ Rendered
    /\ lastEvent.op = "analyzeImageDone"
    /\ lastEvent.resp = 6
    /\ dom.explanation = <<"<", "b", ">">>
    /\ dom.extracted.text = <<"&", "l", "t", ";", "h", "i", "&", "g", "t", ";">>
    /\ dom.urls = << <<"a", "&", "a", "m", "p", ";", "b">> >>
    /\ dom.urlScan.items[1].warnings[1] = <<"&", "#", "0", "3", "9", ";">>

\* The regions every complete projection writes
ResultRegions ==
    {"riskLevelText", "riskLevelClass", "riskScoreValue", "riskScoreStroke",
     "scamConf", "safeConf", "stats", "explanation", "indicators"}

\* The regions hold what one result, projected to the end, puts in them.
FromOneResult(d) ==
    \E k \in Successes :
        LET p == displayResults(InitialDom, Responses[k].data)
        IN  ~p.threw /\ \A region \in ResultRegions : d[region] = p.dom[region]

\* C23: whenever the results area is visible, the badge, the gauge, the
\* confidence split, the statistics, the explanation and the indicator
\* flags are those of one result.
C23_VisibleResultIsOneResult ==
    resultsDisplay = "block" => FromOneResult(dom)

-----------------------------------------------------------------------------
(* Properties of the surfaced error, checked under SpecErrors *)

\* The last handler was the completion of a request whose response parsed
\* and was not a success.
ServiceError == lastEvent.op \in DoneOps /\ lastEvent.outcome = "error"

\* C16: for a non-success response the alert is "Error: " and the error text
\* of the body, or the form's default when the body has none; for the image
\* form a blank line and the installation guide follow when the body has
\* one; for the text form nothing follows.
C16_GuideAppendedForImagesOnly ==
    ServiceError =>
        LET data == Responses[lastEvent.resp].data
            image == lastEvent.op = "analyzeImageDone"
            text == IF Has(data, "error") /\ data.error # "" THEN data.error
                    ELSE IF image THEN "Image analysis failed" ELSE "Analysis failed"
            guide == Has(data, "installation_guide") /\ data.installation_guide # ""
        IN  IF image /\ guide
            THEN alerted = <<"Error: ", text, "\n\n", data.installation_guide>>
            ELSE alerted = <<"Error: ", text>>

\* An image submission was answered with an error text and a guide, and both
\* are in the alert.
C16_Witness ==
    /\ ServiceError
    /\ lastEvent.op = "analyzeImageDone"
    /\ alerted = <<"Error: ", "OCR unavailable", "\n\n", "Install tesseract">>

\* C17: a response whose body does not parse is surfaced with the generic
\* message of the form, the one a non-success response without an error
\* text gets, and not with the parser's message.
C17_UnparsableBodyIsGeneric ==
    (lastEvent.op \in DoneOps /\ lastEvent.outcome = "unparsable")
        => alerted = <<"Error: ", IF lastEvent.op = "analyzeImageDone"
                                  THEN "Image analysis failed" ELSE "Analysis failed">>

-----------------------------------------------------------------------------
(* Properties of the poller, checked under SpecPoller *)

\* C11: with a history region, one history fetch is pending when the page
\* has loaded and the interval callback dispatches again and again, whatever
\* happened before; without one, no history fetch is ever pending, also
\* after a successful submission and after its refresh timeout has fired.
C11_PollsIffRegionExists ==
    /\ [](lastEvent.op = "load" => Len(histInFlight) = IF hasHistory THEN 1 ELSE 0)
    /\ [](~hasHistory => histInFlight = <<>> /\ feed = InitialFeed)
    /\ [](hasHistory => <>(lastEvent.op = "interval"))

\* Without a history region, a submission has been rendered and the refresh
\* it scheduled has fired.
C11_Witness ==
    /\ ~hasHistory
    /\ lastEvent.op = "timeout"
    /\ resultsDisplay = "block"
    /\ histInFlight = <<>>

-----------------------------------------------------------------------------
(* Properties of recovery after a failure, checked under SpecRecovery *)

\* C12: the step that surfaces a failed submission leaves the feed, the
\* pending history fetches, the pending refresh timeouts and the result
\* regions as they were and hides the loading indicator; in the state it
\* leaves, a submit is taken, and a submit taken there is validated and
\* dispatched as from the idle page.
C12_FailureEndsOnlyTheAttempt ==
    /\ [][ FailedCompletion'
           => /\ feed' = feed
              /\ histInFlight' = histInFlight
              /\ timeouts' = timeouts
              /\ dom' = dom
              /\ <<messageInput', selectedImage'>> = <<messageInput, selectedImage>>
              /\ loadingSpinner' = "none" ]_vars
    /\ [](FailedCompletion /\ BagCardinality(inFlight) < MaxInFlight
            => ENABLED SubmitText)
    /\ [][ (FailedCompletion /\ lastEvent'.op = "submitText")
           => /\ lastEvent'.outcome = "sent"
              /\ loadingSpinner' = "block"
              /\ resultsDisplay' = "none"
              /\ inFlight' = inFlight (+) SetToBag({Request("/analyze",
                                 Trim(messageInput), NoFile,
                                 resultsDisplay = "block")}) ]_vars

\* A submission has just failed on a page whose feed shows rows, with a
\* history fetch and a refresh pending.
C12_Witness ==
    /\ FailedCompletion
    /\ lastEvent.outcome = "error"
    /\ feed.html = "rows"
    /\ histInFlight # <<>>
    /\ timeouts # <<>>
    /\ inFlight = EmptyBag
=============================================================================
